---------------------------- MODULE Spec2Model ----------------------------
(***************************************************************************)
(* Model of train.py: the start-up path of one training run.  A run is a   *)
(* set of OS processes started with the same command line; each executes   *)
(* main() once.  The processes share a filesystem and, under the           *)
(* 'pytorch' launcher, one process group.                                  *)
(*                                                                         *)
(* Strings are sequences of one-character strings, so that split(',') and  *)
(* int() are computed rather than assumed.  Paths are sequences of path    *)
(* components, and the filesystem is the set of directories that exist.    *)
(*                                                                         *)
(* torch.cuda.set_device is modelled as recording the requested ordinal;   *)
(* setup_logger, print_args, Trainer and the seeding calls are external    *)
(* and are modelled by the fact that they were called.                     *)
(***************************************************************************)
EXTENDS Integers, Sequences, FiniteSets

\* ------------------------------------------------------------------ bounds
\* number of OS processes the launcher starts in multi-process mode
NProcs == 2
\* longest --gpu_ids string enumerated
MaxLen == 3
\* largest value of torch.cuda.device_count()
MaxGpus == 2
\* how many times the same command is run on the same filesystem
MaxRuns == 2

\* ------------------------------------------------------- values not yet set
\* args.rank before line 123/130 assigns it
RankUnset == -2
\* the device before any torch.cuda.set_device call
NoDevice == -1
\* os.environ has no 'RANK'
NoEnv == -1
\* args.world_size before line 128 assigns it
WorldUnset == 0

Procs == 0 .. (NProcs - 1)

\* ------------------------------------------------------------ str and int()
\* the characters of a --gpu_ids string: three digits, the sign, the
\* separator, and "x" for any character int() does not accept
Digits == {"0", "1", "2"}
Chars == Digits \cup {"-", ",", "x"}

\* every string of at most n characters
Strings(n) == UNION {[1 .. k -> Chars] : k \in 0 .. n}

\* str.split(','): always at least one token; "" splits to [""]
RECURSIVE Split(_)
Split(s) ==
  IF \A i \in 1 .. Len(s) : s[i] # ","
  THEN <<s>>
  ELSE LET i == CHOOSE k \in 1 .. Len(s) :
                  s[k] = "," /\ \A j \in 1 .. (k - 1) : s[j] # ","
       IN <<SubSeq(s, 1, i - 1)>> \o Split(SubSeq(s, i + 1, Len(s)))

DigitVal(c) == CASE c = "0" -> 0 [] c = "1" -> 1 [] c = "2" -> 2

\* the part of a token after an optional leading sign
Unsigned(t) == IF Len(t) > 0 /\ t[1] = "-" THEN Tail(t) ELSE t

\* int(t) does not raise ValueError: an optional sign, then one or more digits
IsInt(t) ==
  /\ Len(Unsigned(t)) > 0
  /\ \A i \in 1 .. Len(Unsigned(t)) : Unsigned(t)[i] \in Digits

RECURSIVE Magnitude(_)
Magnitude(ds) ==
  IF ds = <<>> THEN 0
  ELSE 10 * Magnitude(SubSeq(ds, 1, Len(ds) - 1)) + DigitVal(ds[Len(ds)])

\* int(t), for a token with IsInt(t)
IntVal(t) ==
  IF Len(t) > 0 /\ t[1] = "-" THEN 0 - Magnitude(Tail(t)) ELSE Magnitude(t)

\* The loop of lines 112-116 with a try/except that skips a bad token.
RECURSIVE ParseIdsSkipBad(_, _)
ParseIdsSkipBad(toks, acc) ==
  IF toks = <<>> THEN [ok |-> TRUE, ids |-> acc]
  ELSE IF ~IsInt(Head(toks)) THEN ParseIdsSkipBad(Tail(toks), acc)
  ELSE ParseIdsSkipBad(Tail(toks),
                       IF IntVal(Head(toks)) >= 0
                       THEN Append(acc, IntVal(Head(toks))) ELSE acc)

\* The loop of lines 112-116 without the id >= 0 test.
RECURSIVE ParseIdsKeepNegative(_, _)
ParseIdsKeepNegative(toks, acc) ==
  IF toks = <<>> THEN [ok |-> TRUE, ids |-> acc]
  ELSE IF ~IsInt(Head(toks)) THEN [ok |-> FALSE, ids |-> acc]
  ELSE ParseIdsKeepNegative(Tail(toks), Append(acc, IntVal(Head(toks))))

\* Lines 112-116: args.gpu_ids = []; for each token, id = int(token) (which
\* raises on a non-integer token, leaving the list built so far) and the id
\* is appended when id >= 0.  ok is FALSE when int() raised.
RECURSIVE ParseIds(_, _)
ParseIds(toks, acc) ==
  IF toks = <<>> THEN [ok |-> TRUE, ids |-> acc]
  ELSE IF ~IsInt(Head(toks)) THEN [ok |-> FALSE, ids |-> acc]
  ELSE ParseIds(Tail(toks),
                IF IntVal(Head(toks)) >= 0
                THEN Append(acc, IntVal(Head(toks))) ELSE acc)

\* ------------------------------------------------------------------- paths
\* --save_folder default './weights' (line 97) and --name (line 37)
SaveFolderOpt == <<"weights">>
NameOpt == "train_vfiformer"

\* os.path.join(a, b) for a relative component b
PathJoin(path, name) == Append(path, name)

\* the derived paths of lines 132-134
SaveFolder == PathJoin(SaveFolderOpt, NameOpt)
VisDir == PathJoin(SaveFolder, "vis")
SnapshotDir == PathJoin(SaveFolder, "snapshot")

Parent(path) == SubSeq(path, 1, Len(path) - 1)
Ancestors(path) == {SubSeq(path, 1, k) : k \in 1 .. Len(path)}

\* os.path.exists that always answers False
ExistsNever(dirs, path) == FALSE

\* os.path.exists(path)
Exists(dirs, path) == path \in dirs

\* os.makedirs(path) succeeds: the leaf is absent and the filesystem writable
MakedirsOk(dirs, path, writable) == writable /\ path \notin dirs
\* os.makedirs(path) creates the leaf and every missing ancestor
Makedirs(dirs, path) == dirs \cup Ancestors(path)

\* os.mkdir(path) succeeds: leaf absent, parent present, filesystem writable
MkdirOk(dirs, path, writable) ==
  writable /\ path \notin dirs /\ (Len(path) = 1 \/ Parent(path) \in dirs)
Mkdir(dirs, path) == dirs \cup {path}

\* the directory trees the run may find at start
InitialTrees ==
  { {}, {SaveFolderOpt}, {SaveFolderOpt, SaveFolder},
    {SaveFolderOpt, SaveFolder, VisDir},
    {SaveFolderOpt, SaveFolder, SnapshotDir},
    {SaveFolderOpt, SaveFolder, VisDir, SnapshotDir} }

\* lines 137-141 on the coordinating process: each directory is created only
\* when os.path.exists says it is absent; a failed creation raises and keeps
\* what was created before it.
LayoutDirs(d, vis, snap, writable) ==
  IF ~Exists(d, vis) /\ ~MakedirsOk(d, vis, writable)
  THEN [ok |-> FALSE, dirs |-> d]
  ELSE LET d1 == IF Exists(d, vis) THEN d ELSE Makedirs(d, vis)
       IN IF ~Exists(d1, snap) /\ ~MkdirOk(d1, snap, writable)
          THEN [ok |-> FALSE, dirs |-> d1]
          ELSE [ok |-> TRUE,
                dirs |-> IF Exists(d1, snap) THEN d1 ELSE Mkdir(d1, snap)]

\* ------------------------------------------------------ rank and device rules
\* a rank test that lets every process through
IsCoordinatorAlways(rank) == TRUE

\* line 137: args.rank <= 0
IsCoordinator(rank) == rank <= 0

\* binding to the rank itself
DeviceForRankNoMod(rank, num_gpus) == rank

\* line 24: rank % num_gpus (num_gpus > 0)
DeviceForRank(rank, num_gpus) == rank % num_gpus

\* line 123: args.rank = -1
NoDistRank == -1

\* a join that returns as soon as one process has arrived
JoinCompleteAny(arr, world) == arr # {}

\* line 25: dist.init_process_group returns once every process of the group
\* has entered it
JoinComplete(arr, world) == arr = world

\* ------------------------------------------------------------------- state
VARIABLES
  cfg,       \* the command line and environment of the run (never changes)
  dirs,      \* the directories that exist on the shared filesystem
  arrived,   \* the processes that have entered dist.init_process_group
  runNo,     \* which invocation of the command this is
  pc,        \* per process: the next statement group of main()
  trace,     \* per process: the statement groups completed, in order
  failedAt,  \* per process: the statement group that raised, or "none"
  args,      \* per process: the fields of args that main() assigns
  local      \* per process: device, start method, RANK read, calls made

vars == <<cfg, dirs, arrived, runNo, pc, trace, failedAt, args, local>>

Launchers == {"none", "pytorch"}
StartMethods == {"none", "fork", "spawn"}

\* the processes of the run: one without a launcher, NProcs under torchrun
World == IF cfg.launcher = "none" THEN {0} ELSE Procs

\* RANK as the launcher exports it: process p gets p
LauncherEnv == [p \in Procs |-> p]
\* the same with RANK missing from the environment of process q
EnvWithout(q) == [p \in Procs |-> IF p = q THEN NoEnv ELSE p]
Environs == {LauncherEnv} \cup {EnvWithout(q) : q \in Procs}

\* --gpu_ids values tried together with every environment
SampleIds == { <<"0">>, <<"-", "1">>, <<"0", ",", "2">>, <<>>,
               <<"0", ",", "x">>, <<"1">>, <<"-", "1", ",", "0">> }

Config(l, s, g, e, m, w, t) ==
  [launcher |-> l, gpu_ids |-> s, num_gpus |-> g, environ |-> e,
   start_method |-> m, writable |-> w, tree |-> t]

\* The runs checked: every --gpu_ids string in a single-process run on a
\* plain node; the sample strings under both launchers with every device
\* count and environment; and every start method and initial directory
\* tree, writable or not.
Configs ==
  {Config("none", s, 1, LauncherEnv, "none", TRUE, {}) : s \in Strings(MaxLen)}
  \cup
  {Config(c[1], c[2], c[3], c[4], "none", TRUE, {}) :
      c \in Launchers \X SampleIds \X (0 .. MaxGpus) \X Environs}
  \cup
  {Config(c[1], <<"0">>, 1, LauncherEnv, c[2], c[3], c[4]) :
      c \in Launchers \X StartMethods \X BOOLEAN \X InitialTrees}

\* args before line 107 has run; gpu_ids holds the parsed list only (the raw
\* string stays in cfg.gpu_ids)
ArgsInit ==
  [gpu_ids |-> <<>>, dist |-> "unset", rank |-> RankUnset,
   world_size |-> WorldUnset, save_folder |-> <<>>,
   vis_save_dir |-> <<>>, snapshot_save_dir |-> <<>>]

LocalInit ==
  [device |-> NoDevice, start_method |-> cfg.start_method,
   rank_env |-> NoEnv, seeded |-> 0, created |-> {}, logger |-> FALSE,
   driver_calls |-> 0]

PcInit == [p \in Procs |-> IF p \in World THEN "start" ELSE "absent"]

ProcsInit ==
  /\ pc = PcInit
  /\ trace = [p \in Procs |-> <<>>]
  /\ failedAt = [p \in Procs |-> "none"]
  /\ args = [p \in Procs |-> ArgsInit]
  /\ local = [p \in Procs |-> LocalInit]
  /\ arrived = {}

Init ==
  /\ cfg \in Configs
  /\ dirs = cfg.tree
  /\ runNo = 1
  /\ ProcsInit

\* ----------------------------------------------------------------- helpers
Goto(p, label) == pc' = [pc EXCEPT ![p] = label]
Completed(p, step) == trace' = [trace EXCEPT ![p] = Append(@, step)]
Raise(p, step) ==
  /\ pc' = [pc EXCEPT ![p] = "failed"]
  /\ failedAt' = [failedAt EXCEPT ![p] = step]
  /\ UNCHANGED trace

\* ------------------------------------------------------------------ main()
\* an argument parser step that goes straight to the device ids
ParseArgsNoSeed(p) ==
  /\ pc[p] = "start"
  /\ args' = [args EXCEPT ![p].save_folder = SaveFolderOpt]
  /\ Goto(p, "gpu_ids")
  /\ Completed(p, "parse_args")
  /\ UNCHANGED <<cfg, dirs, arrived, runNo, failedAt, local>>

\* line 107: parser.parse_args(); the launcher is one of the two choices and
\* save_folder holds the option as given
ParseArgs(p) ==
  /\ pc[p] = "start"
  /\ args' = [args EXCEPT ![p].save_folder = SaveFolderOpt]
  /\ Goto(p, "seed")
  /\ Completed(p, "parse_args")
  /\ UNCHANGED <<cfg, dirs, arrived, runNo, failedAt, local>>

\* line 108: set_random_seed(args.random_seed)
SetRandomSeed(p) ==
  /\ pc[p] = "seed"
  /\ local' = [local EXCEPT ![p].seeded = @ + 1]
  /\ Goto(p, "gpu_ids")
  /\ Completed(p, "seed")
  /\ UNCHANGED <<cfg, dirs, arrived, runNo, failedAt, args>>

\* lines 111-118: split, parse, and bind the first id when there is one.  A
\* token int() rejects raises before line 117 is reached.
ParseGpuIds(p) ==
  /\ pc[p] = "gpu_ids"
  /\ LET r == ParseIds(Split(cfg.gpu_ids), <<>>)
     IN /\ args' = [args EXCEPT ![p].gpu_ids = r.ids]
        /\ IF r.ok
           THEN /\ local' = [local EXCEPT ![p].device =
                               IF Len(r.ids) > 0 THEN r.ids[1] ELSE @]
                /\ Goto(p, "launcher")
                /\ Completed(p, "gpu_ids")
                /\ UNCHANGED failedAt
           ELSE /\ Raise(p, "gpu_ids")
                /\ UNCHANGED local
  /\ UNCHANGED <<cfg, dirs, arrived, runNo>>

\* lines 121-124: distributed training disabled
NoDist(p) ==
  /\ pc[p] = "launcher"
  /\ cfg.launcher = "none"
  /\ args' = [args EXCEPT ![p].dist = "False", ![p].rank = NoDistRank]
  /\ Goto(p, "paths")
  /\ Completed(p, "dist")
  /\ UNCHANGED <<cfg, dirs, arrived, runNo, failedAt, local>>

\* lines 126-127 and 20-24: args.dist = True, then init_dist up to the call
\* of init_process_group.  set_start_method raises when a start method other
\* than spawn is already set, os.environ['RANK'] raises when RANK is missing,
\* rank % num_gpus raises when no device is visible.
InitDist(p) ==
  /\ pc[p] = "launcher"
  /\ cfg.launcher = "pytorch"
  /\ args' = [args EXCEPT ![p].dist = "True"]
  /\ LET sm == local[p].start_method
         rank == cfg.environ[p]
     IN IF sm = "fork"
        THEN /\ Raise(p, "dist")
             /\ UNCHANGED <<local, arrived>>
        ELSE IF rank = NoEnv
        THEN /\ Raise(p, "dist")
             /\ local' = [local EXCEPT ![p].start_method = "spawn"]
             /\ UNCHANGED arrived
        ELSE IF cfg.num_gpus = 0
        THEN /\ Raise(p, "dist")
             /\ local' = [local EXCEPT ![p].start_method = "spawn",
                                       ![p].rank_env = rank]
             /\ UNCHANGED arrived
        ELSE /\ local' = [local EXCEPT
                            ![p].start_method = "spawn",
                            ![p].rank_env = rank,
                            ![p].device = DeviceForRank(rank, cfg.num_gpus)]
             /\ arrived' = arrived \cup {p}
             /\ Goto(p, "join")
             /\ UNCHANGED <<trace, failedAt>>
  /\ UNCHANGED <<cfg, dirs, runNo>>

\* the rank a process has in the group: the one RANK gave it, 1-based
GroupRankOneBased(p) == cfg.environ[p] + 1

\* line 130: torch.distributed.get_rank(), the rank the group was joined as
GroupRank(p) == cfg.environ[p]

\* line 128: torch.distributed.get_world_size()
GroupSize == Cardinality(World)

\* line 25 returning, then lines 128-130
JoinReturn(p) ==
  /\ pc[p] = "join"
  /\ JoinComplete(arrived, World)
  /\ args' = [args EXCEPT ![p].world_size = GroupSize,
                          ![p].rank = GroupRank(p)]
  /\ Goto(p, "paths")
  /\ Completed(p, "dist")
  /\ UNCHANGED <<cfg, dirs, arrived, runNo, failedAt, local>>

\* a failed join that carries on as a single process
JoinFailFallback(p) ==
  /\ pc[p] = "join"
  /\ args' = [args EXCEPT ![p].dist = "False", ![p].rank = NoDistRank]
  /\ Goto(p, "paths")
  /\ Completed(p, "dist")
  /\ UNCHANGED <<cfg, dirs, arrived, runNo, failedAt, local>>

\* line 25 raising: the backend's timeout elapsed or the backend failed
JoinFail(p) ==
  /\ pc[p] = "join"
  /\ Raise(p, "dist")
  /\ UNCHANGED <<cfg, dirs, arrived, runNo, args, local>>

\* lines 132-135
DerivePaths(p) ==
  /\ pc[p] = "paths"
  /\ LET save == PathJoin(args[p].save_folder, NameOpt)
     IN args' = [args EXCEPT ![p].save_folder = save,
                             ![p].vis_save_dir = PathJoin(save, "vis"),
                             ![p].snapshot_save_dir = PathJoin(save, "snapshot")]
  /\ Goto(p, "layout")
  /\ Completed(p, "paths")
  /\ UNCHANGED <<cfg, dirs, arrived, runNo, failedAt, local>>

\* lines 137-142: on the coordinating process create what is missing, then
\* set up the logger; every other process skips the block
Layout(p) ==
  /\ pc[p] = "layout"
  /\ IF IsCoordinator(args[p].rank)
     THEN LET r == LayoutDirs(dirs, args[p].vis_save_dir,
                              args[p].snapshot_save_dir, cfg.writable)
          IN /\ dirs' = r.dirs
             /\ IF r.ok
                THEN /\ local' = [local EXCEPT ![p].created = r.dirs \ dirs,
                                               ![p].logger = TRUE]
                     /\ Goto(p, "print_args")
                     /\ Completed(p, "layout")
                     /\ UNCHANGED failedAt
                ELSE /\ local' = [local EXCEPT ![p].created = r.dirs \ dirs]
                     /\ Raise(p, "layout")
     ELSE /\ Goto(p, "print_args")
          /\ Completed(p, "layout")
          /\ UNCHANGED <<dirs, local, failedAt>>
  /\ UNCHANGED <<cfg, arrived, runNo, args>>

\* lines 144-146: print_args(args); cudnn.benchmark = True
PrintArgs(p) ==
  /\ pc[p] = "print_args"
  /\ Goto(p, "driver")
  /\ Completed(p, "print_args")
  /\ UNCHANGED <<cfg, dirs, arrived, runNo, failedAt, args, local>>

\* lines 149-150: Trainer(args) and trainer.train() are entered
Handoff(p) ==
  /\ pc[p] = "driver"
  /\ local' = [local EXCEPT ![p].driver_calls = @ + 1]
  /\ Goto(p, "training")
  /\ Completed(p, "driver")
  /\ UNCHANGED <<cfg, dirs, arrived, runNo, failedAt, args>>

\* trainer.train() returns and main() ends
DriverReturn(p) ==
  /\ pc[p] = "training"
  /\ Goto(p, "done")
  /\ UNCHANGED <<cfg, dirs, arrived, runNo, trace, failedAt, args, local>>

\* the driver raises; main() does not catch it
DriverRaise(p) ==
  /\ pc[p] = "training"
  /\ Raise(p, "driver")
  /\ UNCHANGED <<cfg, dirs, arrived, runNo, args, local>>

Terminated(p) == pc[p] \in {"done", "failed", "absent"}

\* lines 152-153: the same command is started again once every process of
\* the previous run has ended; only the filesystem carries over
Rerun ==
  /\ runNo < MaxRuns
  /\ \A p \in Procs : Terminated(p)
  /\ runNo' = runNo + 1
  /\ pc' = PcInit
  /\ trace' = [p \in Procs |-> <<>>]
  /\ failedAt' = [p \in Procs |-> "none"]
  /\ args' = [p \in Procs |-> ArgsInit]
  /\ local' = [p \in Procs |-> LocalInit]
  /\ arrived' = {}
  /\ UNCHANGED <<cfg, dirs>>

Next ==
  \/ \E p \in Procs :
       \/ ParseArgs(p)
       \/ SetRandomSeed(p)
       \/ ParseGpuIds(p)
       \/ NoDist(p)
       \/ InitDist(p)
       \/ JoinReturn(p)
       \/ JoinFail(p)
       \/ DerivePaths(p)
       \/ Layout(p)
       \/ PrintArgs(p)
       \/ Handoff(p)
       \/ DriverReturn(p)
       \/ DriverRaise(p)
  \/ Rerun

Spec == Init /\ [][Next]_vars

\* ------------------------------------------------------------ properties
HasDone(p, step) == \E i \in 1 .. Len(trace[p]) : trace[p][i] = step
HandedOff(p) == local[p].driver_calls > 0
LayoutDirsPresent == {VisDir, SnapshotDir} \subseteq dirs

\* C1: whenever a process has handed off to the Training Driver, the
\* visualization and snapshot directories exist.
C1_DirsExistAtHandoff ==
  \A p \in World : HandedOff(p) => LayoutDirsPresent

\* C2 (as stated): in multi-process mode no rank has run its layout step or
\* handed off until init_dist has returned and lines 128-130 have run on
\* every rank.
C2_AllRanksSetUpBeforeLayout ==
  cfg.launcher = "pytorch" =>
    \A p \in World : (HasDone(p, "layout") \/ HandedOff(p)) =>
      \A q \in World : HasDone(q, "dist")

\* C2 (amended): in multi-process mode no rank has run its layout step or
\* handed off until every rank has run lines 20-24 of init_dist (start
\* method, RANK read, device bound) and entered the process-group join.
C2_AllRanksJoinedBeforeLayout ==
  cfg.launcher = "pytorch" =>
    \A p \in World : (HasDone(p, "layout") \/ HandedOff(p)) =>
      \A q \in World :
        /\ q \in arrived
        /\ local[q].start_method = "spawn"
        /\ local[q].rank_env = q
        /\ local[q].device # NoDevice

C2_Witness ==
  /\ cfg.launcher = "pytorch"
  /\ \E p, q \in World : HasDone(p, "layout") /\ pc[q] = "join"

\* the phase of the spec's control flow each statement group belongs to:
\* 1 seeding, 2 configuration resolution, 3 device/distribution setup,
\* 4 layout creation, 5 driver invocation
PhaseOf(step) ==
  CASE step = "seed" -> 1
    [] step \in {"parse_args", "paths"} -> 2
    [] step \in {"gpu_ids", "dist"} -> 3
    [] step \in {"layout", "print_args"} -> 4
    [] step = "driver" -> 5

\* C3 (as stated): within a process the phases run in the order seeding,
\* configuration resolution, device/distribution setup, layout creation,
\* driver invocation, and seeding comes before every other step.
C3_PhasesInSpecOrder ==
  \A p \in World :
    /\ Len(trace[p]) > 0 => trace[p][1] = "seed"
    /\ \A i, j \in 1 .. Len(trace[p]) :
         i < j => PhaseOf(trace[p][i]) <= PhaseOf(trace[p][j])

CodeOrder ==
  <<"parse_args", "seed", "gpu_ids", "dist", "paths", "layout",
    "print_args", "driver">>

\* C3 (amended): within a process the steps run, each after the previous
\* one has completed, in the order argument parsing, seeding, device-id
\* parsing, distribution setup, path derivation, layout creation,
\* configuration dump, driver invocation; seeding runs exactly once, right
\* after argument parsing and before every other step.
C3_StepsInCodeOrder ==
  \A p \in World :
    /\ Len(trace[p]) <= Len(CodeOrder)
    /\ trace[p] = SubSeq(CodeOrder, 1, Len(trace[p]))
    /\ local[p].seeded = IF Len(trace[p]) >= 2 THEN 1 ELSE 0

C3_Witness == \E p \in World : trace[p] = CodeOrder /\ local[p].seeded = 1

\* C4: a process of rank > 0 never creates a directory and never sets up
\* the logger, even when the directories are missing; in a run at most one
\* process, of rank -1 or 0, does either.
C4_OnlyCoordinatorCreates ==
  /\ \A p \in Procs :
       (local[p].created # {} \/ local[p].logger) => args[p].rank \in {-1, 0}
  /\ \A p, q \in Procs :
       ( /\ local[p].created # {} \/ local[p].logger
         /\ local[q].created # {} \/ local[q].logger ) => p = q

C4_Witness ==
  \E p \in World :
    /\ args[p].rank > 0
    /\ HasDone(p, "layout")
    /\ VisDir \notin dirs
    /\ SnapshotDir \notin dirs
    /\ local[p].created = {}
    /\ ~local[p].logger

\* C5: in multi-process mode a process that hands off to the driver is bound
\* to device RANK mod (number of visible devices), whatever --gpu_ids bound
\* earlier.
C5_DeviceIsRankModGpus ==
  cfg.launcher = "pytorch" =>
    \A p \in World :
      HandedOff(p) => local[p].device = cfg.environ[p] % cfg.num_gpus

C5_Witness ==
  /\ cfg.launcher = "pytorch"
  /\ \E p \in World :
       /\ HandedOff(p)
       /\ cfg.environ[p] >= cfg.num_gpus
       /\ Len(args[p].gpu_ids) > 0
       /\ args[p].gpu_ids[1] # local[p].device

\* what the claims say of a --gpu_ids string, stated apart from ParseIds
Tokens == Split(cfg.gpu_ids)
AllTokensInt == \A i \in 1 .. Len(Tokens) : IsInt(Tokens[i])
HasBadToken == \E i \in 1 .. Len(Tokens) : ~IsInt(Tokens[i])
NonNegative(v) == v >= 0
NonNegativeIds ==
  SelectSeq([i \in 1 .. Len(Tokens) |-> IntVal(Tokens[i])], NonNegative)
FirstIdOrNone ==
  IF Len(NonNegativeIds) > 0 THEN NonNegativeIds[1] ELSE NoDevice
PastGpuIds(p) == pc[p] \notin {"absent", "start", "seed", "gpu_ids"}

\* what lines 111-118 leave behind for a string whose tokens are all
\* integers: no error, the non-negative ids in order, the first one bound
ParsedAsListed(p) ==
  /\ PastGpuIds(p) =>
       /\ failedAt[p] # "gpu_ids"
       /\ args[p].gpu_ids = NonNegativeIds
  /\ pc[p] = "launcher" => local[p].device = FirstIdOrNone

\* C6 (as stated): the device list is the non-negative integer tokens in
\* order, with the first one bound; "-1" and the empty string both give an
\* empty list, no binding and no error.
C6_ParsingWithEmptyString ==
  \A p \in World :
    /\ (AllTokensInt \/ cfg.gpu_ids = <<>>) => ParsedAsListed(p)
    /\ (cfg.gpu_ids \in {<<>>, <<"-", "1">>} /\ PastGpuIds(p)) =>
         /\ args[p].gpu_ids = <<>>
         /\ failedAt[p] # "gpu_ids"
    /\ (cfg.gpu_ids \in {<<>>, <<"-", "1">>} /\ pc[p] = "launcher") =>
         local[p].device = NoDevice

\* C6 (amended): for a string whose tokens are all integers the device list
\* is the non-negative ones in order and torch.cuda.set_device is called
\* with the first, if any ("0,2" gives [0, 2] and device 0, "-1,0" gives
\* [0]); "-1" gives an empty list, no binding and no error; the empty
\* string is one empty token, which int() rejects, so the process fails.
C6_DeviceIdParsing ==
  \A p \in World :
    /\ AllTokensInt => ParsedAsListed(p)
    /\ (cfg.gpu_ids = <<"0", ",", "2">> /\ pc[p] = "launcher") =>
         args[p].gpu_ids = <<0, 2>> /\ local[p].device = 0
    /\ (cfg.gpu_ids = <<"-", "1", ",", "0">> /\ pc[p] = "launcher") =>
         args[p].gpu_ids = <<0>> /\ local[p].device = 0
    /\ (cfg.gpu_ids = <<"-", "1">> /\ PastGpuIds(p)) =>
         /\ args[p].gpu_ids = <<>>
         /\ failedAt[p] # "gpu_ids"
         /\ pc[p] = "launcher" => local[p].device = NoDevice
    /\ (cfg.gpu_ids = <<>> /\ PastGpuIds(p)) =>
         /\ pc[p] = "failed"
         /\ failedAt[p] = "gpu_ids"
         /\ local[p].device = NoDevice

C6_Witness ==
  \E p \in World :
    /\ cfg.gpu_ids = <<"-", "1", ",", "0">>
    /\ pc[p] = "launcher"
    /\ args[p].gpu_ids = <<0>>
    /\ local[p].device = 0

\* C7: once device/distribution setup is done, launcher 'none' means rank -1
\* and dist False (and the layout step then sets up the logger, as on a
\* coordinating process); otherwise dist is True and 0 <= rank < world_size.
C7_RankAndDist ==
  \A p \in World :
    /\ HasDone(p, "dist") =>
         IF cfg.launcher = "none"
         THEN args[p].rank = -1 /\ args[p].dist = "False"
         ELSE /\ args[p].dist = "True"
              /\ 0 <= args[p].rank
              /\ args[p].rank < args[p].world_size
    /\ (cfg.launcher = "none" /\ HasDone(p, "layout")) => local[p].logger

C7_Witness ==
  /\ cfg.launcher = "pytorch"
  /\ \E p \in World :
       /\ HasDone(p, "dist")
       /\ args[p].rank = args[p].world_size - 1
       /\ args[p].rank > 0

SetupSteps == SubSeq(CodeOrder, 1, Len(CodeOrder) - 1)

\* C8: a process enters the driver at most once, and only after every setup
\* step has completed; a process whose setup step raised stays failed, has
\* not entered the driver, has not completed the step that raised, and under
\* the 'pytorch' launcher never has dist False or rank -1.
C8_NoPartialSuccess ==
  \A p \in World :
    /\ local[p].driver_calls <= 1
    /\ HandedOff(p) =>
         /\ SubSeq(trace[p], 1, Len(SetupSteps)) = SetupSteps
         /\ failedAt[p] \in {"none", "driver"}
    /\ failedAt[p] # "none" => pc[p] = "failed"
    /\ failedAt[p] \notin {"none", "driver"} =>
         /\ ~HandedOff(p)
         /\ ~HasDone(p, failedAt[p])
    /\ \A i, j \in 1 .. Len(trace[p]) : trace[p][i] = trace[p][j] => i = j
    /\ cfg.launcher = "pytorch" =>
         args[p].rank # -1 /\ args[p].dist # "False"

C8_Witness ==
  /\ cfg.launcher = "pytorch"
  /\ \E p, q \in World :
       /\ failedAt[p] = "dist" /\ p \in arrived /\ ~HandedOff(p)
       /\ failedAt[q] = "layout" /\ ~HandedOff(q)

\* C9: with a non-integer token anywhere in --gpu_ids, a process gets no
\* further than the device-id step, where it fails: no device is bound, the
\* start method is untouched, RANK is not read, the group is not joined,
\* nothing is created and the driver is not entered.
C9_BadTokenFailsFirst ==
  HasBadToken =>
    /\ dirs = cfg.tree
    /\ arrived = {}
    /\ \A p \in World :
         /\ pc[p] \in {"start", "seed", "gpu_ids", "failed"}
         /\ pc[p] = "failed" => failedAt[p] = "gpu_ids"
         /\ local[p].device = NoDevice
         /\ local[p].start_method = cfg.start_method
         /\ local[p].rank_env = NoEnv
         /\ local[p].created = {}
         /\ ~local[p].logger
         /\ ~HandedOff(p)
         /\ args[p].rank = RankUnset

C9_Witness ==
  \E p \in World :
    /\ cfg.gpu_ids = <<"0", ",", "x">>
    /\ pc[p] = "failed"
    /\ failedAt[p] = "gpu_ids"

LayoutStepBy(p) == pc[p] = "layout" /\ pc'[p] # "layout"

\* C10: a layout step on a process of rank <= 0 ends without error with both
\* directories present, from every initial tree on a filesystem that allows
\* creation; when both are already present it changes nothing and raises
\* nothing, writable filesystem or not.
C10_LayoutIdempotent ==
  [][\A p \in World :
       (LayoutStepBy(p) /\ args[p].rank <= 0) =>
         /\ (cfg.writable \/ LayoutDirsPresent) =>
              /\ pc'[p] = "print_args"
              /\ {VisDir, SnapshotDir} \subseteq dirs'
         /\ LayoutDirsPresent => dirs' = dirs]_vars

C10_Witness ==
  /\ runNo = 2
  /\ dirs # cfg.tree
  /\ \E p \in World :
       /\ args[p].rank <= 0
       /\ args[p].rank # RankUnset
       /\ HasDone(p, "layout")
       /\ local[p].created = {}
       /\ local[p].logger

=============================================================================
